---- MODULE Spec2Model ----
(***************************************************************************)
(* Model of the Notion -> events.json sync pipeline:                       *)
(*   - extractPropertyValue / mapEvent / the name-and-date filter          *)
(*     (both variants of the fetch script),                                *)
(*   - updateEventStatusesInNotion and fetchAndWriteEvents,                *)
(*   - checkIfFetchNeeded (both variants of the check script).             *)
(*                                                                         *)
(* The specifications share the variables below; each leaves the           *)
(* variables of the others at their idle values.                           *)
(*   SpecMap   : mapping, filtering, publishing and re-reading of a page   *)
(*   SpecCheck : one run of the staleness checker                          *)
(*   Spec      : one run of the sync script against a remote store         *)
(*   SpecFlow  : the local workflow: the checker, then the fetch script    *)
(*   SpecHome  : the home page's event list (assets/js/events.js)          *)
(***************************************************************************)
EXTENDS Integers, Sequences, FiniteSets, TLC

VARIABLES
    \* ---- SpecMap
    mVariant,      \* which fetch script maps: "full" (with status updates)
                   \* | "basic" (scripts/fetch-events-from-notion.mjs)
    mPages,        \* response.results: the pages handed to mapEvent
    mEvents,       \* events (after .map(mapEvent))
    mValid,        \* validEvents (after .filter)
    mHash,         \* newHash of validEvents
    mText,         \* the text written to public/events.json (Undef: none)
    mReHash,       \* existingHash a following run computes from that text
    mPc,           \* "idle" | "fetched" | "mapped" | "filtered" | "published"
                   \* | "reread"
    \* ---- SpecCheck
    cVariant,      \* "dated": scripts/check-notion-updates.mjs | "plain": the
                   \* checker without the date scan
    cPc,           \* "idle" | "start" | "read" | "edited" | "decide" | "scan"
                   \* | "exit" | "done"
    cFile,         \* .last-sync as found: "unread" | "absent" | "unreadable"
                   \* | "present"
    cSync,         \* lastSyncTimestamp
    cEdited,       \* databaseLastEdited
    cScanned,      \* the date scan's query: "no" | "ok" | "failed"
    cResults,      \* response.results of the date scan
    cNow,          \* new Date() at the date scan
    cUpdated,      \* dbWasUpdated
    cDateChg,      \* hasDateBasedChanges
    cFetch,        \* what checkIfFetchNeeded settled with: "pending" | "yes"
                   \* | "no" | "threw" | "nocreds"
    cExit,         \* the process exit code: {} while running, else {code}
    \* ---- SpecFlow (scripts/test-sync.mjs around the checker)
    wPc,           \* "idle" | "check" | "fetch" | "done"
    wCheckCode,    \* checkExitCode: {} before the check has closed, else {code}
    wFetchCode,    \* fetchExitCode: {} unless the fetch has closed, else {code}
    wFetchRuns,    \* number of times the fetch script was started
    wExit,         \* exit code of test-sync.mjs: {} while running, else {code}
    \* ---- Spec (the sync script with status updates)
    store,         \* the events database: a sequence of [visible, status, date],
                   \* a record's page id being its index
    sPc,           \* "idle" | "start" | "uquery" | "issue" | "await" | "delay"
                   \* | "lastEdited" | "query" | "readArtifact" | "write"
                   \* | "ckpt" | "done"
    sCursor,       \* startCursor of updateEventStatusesInNotion
    sAllPages,     \* allPages
    sUQuery,       \* the updater's query: "pending" | "ok" | "failed"
    sNow,          \* now of updateEventStatusesInNotion
    sCalls,        \* the notion.pages.update calls issued, in order
    sPending,      \* indices in sCalls of the calls not yet settled
    sOk,           \* indices of the calls that succeeded
    sRejected,     \* indices of the calls that failed
    sUpdatedCount, \* updatedCount
    sStatusUpdated,\* statusUpdated
    sDelayed,      \* whether the settling delay was taken
    sEdited,       \* databaseLastEdited
    sPQuery,       \* the primary query: "pending" | "ok" | "failed"
    sValid,        \* validEvents
    sNewHash,      \* newHash
    sExisting,     \* existingHash
    sFound,        \* public/events.json as found when read (Undef: not read)
    sArtifact,     \* public/events.json (Null: absent, Undef: not yet looked at)
    sArtReads,     \* number of reads of public/events.json
    sArtWrites,    \* number of writes of public/events.json
    sCheckpoint,   \* .last-sync (Null: absent)
    sCkptWrites,   \* number of writes of .last-sync
    sExit,         \* the process exit code: {} while running, else {code}
    \* ---- SpecHome (renderHomeEvents of assets/js/events.js)
    hPc,           \* "idle" | "loading" (before DOMContentLoaded) | "ready"
    hLang,         \* the page's current language
    hSection,      \* whether the document has the #events element
    hListExists,   \* whether the .event-list container exists
    hList,         \* the children of the .event-list container, in order
    hPending,      \* lang of each renderHomeEvents call awaiting fetchEvents
    hCalls,        \* number of renderHomeEvents calls made
    hLastData,     \* events of the call that resumed last
    hOverlapped    \* whether a call was made while another was pending

homeVars == <<hPc, hLang, hSection, hListExists, hList, hPending, hCalls,
              hLastData, hOverlapped>>

mapVars == <<mVariant, mPages, mEvents, mValid, mHash, mText, mReHash, mPc,
             homeVars>>

flowVars == <<wPc, wCheckCode, wFetchCode, wFetchRuns, wExit>>

chkVars == <<cVariant, cPc, cFile, cSync, cEdited, cScanned, cResults, cNow,
             cUpdated, cDateChg, cFetch, cExit, flowVars>>

syncVars == <<store, sPc, sCursor, sAllPages, sUQuery, sNow, sCalls, sPending,
              sOk, sRejected, sUpdatedCount, sStatusUpdated, sDelayed, sEdited,
              sPQuery, sValid, sNewHash, sExisting, sFound, sArtifact,
              sArtReads, sArtWrites, sCheckpoint, sCkptWrites, sExit>>

vars == <<mapVars, chkVars, syncVars>>

(***************************************************************************)
(* JavaScript values.  A value is a record [k, v]: k is the JS type, v the *)
(* payload.  Strings that stand for ISO-8601 instants carry the instant as *)
(* a tick count (kind "iso"); they are non-empty strings to JavaScript.    *)
(* Kind "pretty" is the string Intl.DateTimeFormat renders for an instant. *)
(***************************************************************************)
Null == [k |-> "null", v |-> 0]

Undef == [k |-> "undef", v |-> 0]

Str(s) == [k |-> "str", v |-> s]

Iso(t) == [k |-> "iso", v |-> t]

\* the "D Mon YYYY HH:MM" rendering of instant t (a non-empty string)
Pretty(t) == [k |-> "pretty", v |-> t]

Num(n) == [k |-> "num", v |-> n]

Bool(b) == [k |-> "bool", v |-> b]

Arr(q) == [k |-> "arr", v |-> q]

Obj(r) == [k |-> "obj", v |-> r]

\* x === null || x === undefined
IsNullish(x) == x.k \in {"null", "undef"}

\* ToBoolean(x)
Truthy(x) ==
    CASE x.k = "str" -> x.v # ""
      [] x.k = "num" -> x.v # 0
      [] x.k = "bool" -> x.v
      [] x.k \in {"arr", "obj", "iso", "pretty", "sha256"} -> TRUE
      [] OTHER -> FALSE

\* x || y
JsOr(x, y) == IF Truthy(x) THEN x ELSE y

\* q.join("") for a sequence of strings
RECURSIVE JoinStrings(_)
JoinStrings(q) == IF q = <<>> THEN "" ELSE Head(q) \o JoinStrings(Tail(q))

\* arr?.map((text) => text.plain_text).join("") || null
\* (a text span is modelled by its plain_text)
PlainText(val) ==
    IF IsNullish(val) THEN Null ELSE JsOr(Str(JoinStrings(val.v)), Null)

\* arr?.map(f) || []   where the mapped element is the item's name / id
NamesOrEmpty(val) == IF IsNullish(val) THEN Arr(<<>>) ELSE val

\* An ordered key -> value mapping (a JS object with string keys, in
\* insertion order): a sequence of <<key, value>> pairs with distinct keys.
Keys(o) == {o[i][1] : i \in 1..Len(o)}

HasKey(o, key) == key \in Keys(o)

Get(o, key) ==
    IF HasKey(o, key)
    THEN o[CHOOSE i \in 1..Len(o) : o[i][1] = key][2]
    ELSE Undef

\* o[key] = value
Put(o, key, value) ==
    IF HasKey(o, key)
    THEN [i \in 1..Len(o) |-> IF o[i][1] = key THEN <<key, value>> ELSE o[i]]
    ELSE Append(o, <<key, value>>)

\* delete o[key]
RECURSIVE Delete(_, _)
Delete(o, key) ==
    IF o = <<>> THEN <<>>
    ELSE IF Head(o)[1] = key THEN Delete(Tail(o), key)
         ELSE <<Head(o)>> \o Delete(Tail(o), key)

(***************************************************************************)
(* A Notion property is [type, val]: val stands for property[property.type]*)
(* (for select/status its .name, for date its .start, for created_by its   *)
(* .id).  A property without a type has type "".                           *)
(***************************************************************************)
Prop(type, val) == [type |-> type, val |-> val]

\* files item -> {name, url: file.file?.url || file.external?.url || null}
FileEntry(f) ==
    Obj([name |-> f.v.name, url |-> JsOr(JsOr(f.v.file, f.v.external), Null)])

\* a formula branch that hands on the value of a result type it does not know
ExtractFormulaRaw(val) ==
    IF IsNullish(val) THEN Null
    ELSE CASE val.v.type = "string" -> JsOr(val.v.value, Null)
           [] val.v.type = "date" -> JsOr(val.v.value, Null)
           [] OTHER -> val.v.value

\* the formula branch of extractPropertyValue
ExtractFormula(val) ==
    IF IsNullish(val) THEN Null
    ELSE CASE val.v.type = "string" -> JsOr(val.v.value, Null)
           [] val.v.type = "number" -> val.v.value
           [] val.v.type = "boolean" -> val.v.value
           [] val.v.type = "date" -> JsOr(val.v.value, Null)
           [] OTHER -> Null

RECURSIVE extractPropertyValue(_)
\* the rollup branch: array items are extracted (title items directly) and
\* the null results filtered out; else rollup.number || null
ExtractRollup(val) ==
    IF ~IsNullish(val) /\ Truthy(val.v.array)
    THEN LET items == val.v.array.v
             one(item) == IF item.type = "title" THEN PlainText(item.val)
                          ELSE extractPropertyValue(item)
             mapped == [i \in 1..Len(items) |-> one(items[i])]
             keep(x) == x.k # "null"
         IN  Arr(SelectSeq(mapped, keep))
    ELSE IF IsNullish(val) THEN Null ELSE JsOr(val.v.number, Null)

extractPropertyValue(property) ==
    IF property.type = "" THEN Null
    ELSE CASE property.type \in {"title", "rich_text"} -> PlainText(property.val)
           [] property.type = "number" -> property.val
           [] property.type \in {"select", "status"} -> JsOr(property.val, Null)
           [] property.type \in {"multi_select", "relation", "people"} ->
                NamesOrEmpty(property.val)
           [] property.type = "date" -> JsOr(property.val, Null)
           [] property.type = "checkbox" -> JsOr(property.val, Bool(FALSE))
           [] property.type \in {"url", "email", "phone_number", "created_time",
                                 "last_edited_time", "created_by",
                                 "last_edited_by"} -> JsOr(property.val, Null)
           [] property.type = "rollup" -> ExtractRollup(property.val)
           [] property.type = "formula" -> ExtractFormula(property.val)
           [] property.type = "files" ->
                IF IsNullish(property.val) THEN Arr(<<>>)
                ELSE Arr([i \in 1..Len(property.val.v) |->
                             FileEntry(property.val.v[i])])
           [] OTHER -> Null

(***************************************************************************)
(* formatDatePretty and mapEvent.  A page is [id, props]; props is the     *)
(* ordered mapping page.properties.                                        *)
(***************************************************************************)
\* en-GB day/short month/year/2-digit hour/2-digit minute, "," removed
formatDatePretty(dateString) ==
    IF ~Truthy(dateString) THEN Null ELSE Pretty(dateString.v)

\* excludedProperties of the script with status updates
excludedProperties == {"Location", "Place Name", "Place Link", "Visible on site"}

\* excludedProperties of scripts/fetch-events-from-notion.mjs
excludedPropertiesBasic == {"Location", "Visible on site"}

\* a loop that includes a value only if it is truthy: if (value)
RECURSIVE ExtractAllTruthy(_, _, _)
ExtractAllTruthy(props, excluded, n) ==
    IF n = 0 THEN <<>>
    ELSE LET event == ExtractAllTruthy(props, excluded, n - 1)
             key == props[n][1]
             value == extractPropertyValue(props[n][2])
         IN  IF key \in excluded THEN event
             ELSE IF Truthy(value) THEN Put(event, key, value)
             ELSE event

\* Object.keys(props).forEach(...): event after the first n properties
RECURSIVE ExtractAll(_, _, _)
ExtractAll(props, excluded, n) ==
    IF n = 0 THEN <<>>
    ELSE LET event == ExtractAll(props, excluded, n - 1)
             key == props[n][1]
             value == extractPropertyValue(props[n][2])
         IN  IF key \in excluded THEN event
             ELSE IF ~IsNullish(value) THEN Put(event, key, value)
             ELSE event

\* if (event.Date) ...; if (!event.datePretty && event.date) ...
AddDatePretty(event) ==
    LET e1 == IF Truthy(Get(event, "Date"))
              THEN Put(event, "datePretty", formatDatePretty(Get(event, "Date")))
              ELSE event
    IN  IF ~Truthy(Get(e1, "datePretty")) /\ Truthy(Get(e1, "date"))
        THEN Put(e1, "datePretty", formatDatePretty(Get(e1, "date")))
        ELSE e1

\* delete event['Place Name']; delete event['Place Link']; delete event['Place']
DeletePlaceData(event) ==
    Delete(Delete(Delete(event, "Place Name"), "Place Link"), "Place")

mapEvent(page) ==
    AddDatePretty(DeletePlaceData(
        ExtractAll(page.props, excludedProperties, Len(page.props))))

mapEventBasic(page) ==
    AddDatePretty(ExtractAll(page.props, excludedPropertiesBasic, Len(page.props)))

\* a filter that keeps an event having a name or a date
IsValidEventEither(event) ==
    \/ Truthy(JsOr(Get(event, "Name"), Get(event, "name")))
    \/ Truthy(JsOr(Get(event, "Date"), Get(event, "date")))

\* (event.Name || event.name) && (event.Date || event.date)
IsValidEvent(event) ==
    /\ Truthy(JsOr(Get(event, "Name"), Get(event, "name")))
    /\ Truthy(JsOr(Get(event, "Date"), Get(event, "date")))

\* response.results.map((page, index) => mapEvent(page, index === 0))
MapEvents(results, variant) ==
    [i \in 1..Len(results) |->
        IF variant = "full" THEN mapEvent(results[i]) ELSE mapEventBasic(results[i])]

\* events.filter(...)
FilterValid(events) == SelectSeq(events, IsValidEvent)

(***************************************************************************)
(* events.json: JSON text, its parse, and the digest                       *)
(***************************************************************************)
\* what JSON keeps of a value: undefined array items become null, object
\* members with an undefined value are left out
RECURSIVE JsonValue(_)
JsonValue(x) ==
    CASE x.k = "arr" ->
           Arr([i \in 1..Len(x.v) |->
                   IF x.v[i].k = "undef" THEN Null ELSE JsonValue(x.v[i])])
      [] x.k = "obj" ->
           Obj([f \in {g \in DOMAIN x.v : x.v[g].k # "undef"} |-> JsonValue(x.v[f])])
      [] OTHER -> x

JsonKeepsPair(pair) == pair[2].k # "undef"

JsonEvent(event) ==
    LET kept == SelectSeq(event, JsonKeepsPair)
    IN  [i \in 1..Len(kept) |-> <<kept[i][1], JsonValue(kept[i][2])>>]

\* JSON.stringify(events, null, indent): the text, by its indentation and the
\* data it denotes
JsonStringify(events, indent) ==
    [k |-> "json", indent |-> indent,
     v |-> [i \in 1..Len(events) |-> JsonEvent(events[i])]]

\* text that JSON.parse rejects
CorruptText == [k |-> "text", indent |-> 0, v |-> <<>>]

\* JSON.parse(content)
JsonParses(content) == content.k = "json"

JsonParse(content) == content.v

\* a digest of the values as held in memory, without their serialisation
computeEventsHashOfValues(events) ==
    [k |-> "sha256", v |-> [k |-> "json", indent |-> 0, v |-> events]]

\* createHash("sha256").update(JSON.stringify(events)).digest("hex")
computeEventsHash(events) == [k |-> "sha256", v |-> JsonStringify(events, 0)]

(***************************************************************************)
(* SpecMap: a result page of at most MaxPages records is mapped and        *)
(* filtered by either fetch script.                                        *)
(***************************************************************************)
MaxPages == 3

TitleProp(spans) == Prop("title", Arr(spans))

NameField == << <<"Name", TitleProp(<<"Tech ", "Meetup">>)>> >>

DateField == << <<"Date", Prop("date", Iso(1))>> >>

NameChoices ==
    { <<>>,
      NameField,
      << <<"Name", TitleProp(<<>>)>> >>,
      << <<"name", TitleProp(<<"meetup">>)>> >> }

DateChoices ==
    { <<>>,
      DateField,
      << <<"Date", Prop("date", Null)>> >>,
      << <<"date", Prop("date", Iso(1))>> >> }

PublicFields ==
    << <<"Status", Prop("status", Str("Upcoming"))>>,
       <<"Tags", Prop("multi_select", Arr(<<>>))>> >>

SecretFields ==
    << <<"Location", Prop("relation", Arr(<<"place-1">>))>>,
       <<"Place Name", Prop("rich_text", Arr(<<"Secret Bar">>))>>,
       <<"Place Link", Prop("url", Str("https://maps.example/bar"))>>,
       <<"Visible on site", Prop("checkbox", Bool(TRUE))>> >>

\* a files item without a name, hosted externally
ExternalFile ==
    Obj([name |-> Undef, file |-> Undef, external |-> Str("https://files.example/a.pdf")])

\* fields of other types: a venue lookup, an unchecked checkbox, an empty
\* select, a type the extractor does not know, a file list, and a field that
\* has the name of the derived key
OtherFields ==
    << <<"Place", Prop("rich_text", Arr(<<"Secret Bar">>))>>,
       <<"Online", Prop("checkbox", Bool(FALSE))>>,
       <<"Speaker", Prop("select", Null)>>,
       <<"Mood", Prop("button", Str("x"))>>,
       <<"Slides", Prop("files", Arr(<<ExternalFile>>))>>,
       <<"datePretty", Prop("rich_text", Arr(<<>>))>> >>

Rollup(array, number) == Prop("rollup", Obj([array |-> array, number |-> number]))

Formula(type, value) == Prop("formula", Obj([type |-> type, value |-> value]))

\* the items of a rollup array: a title, an empty select, an unchecked
\* checkbox, an empty multi-select and a number
RollupItems ==
    << TitleProp(<<"Ann">>), Prop("select", Null), Prop("checkbox", Bool(FALSE)),
       Prop("multi_select", Arr(<<>>)), Prop("number", Num(7)) >>

\* rollups with an array, with the number 0, with another number and with
\* neither; formulas of a known and of an unknown result type; a property
\* object without a type
ComputedFields ==
    << <<"Guests", Rollup(Arr(RollupItems), Undef)>>,
       <<"Seats", Rollup(Undef, Num(0))>>,
       <<"Budget", Rollup(Undef, Num(5))>>,
       <<"Votes", Rollup(Undef, Null)>>,
       <<"Score", Formula("number", Num(0))>>,
       <<"Code", Formula("list", Str("x"))>>,
       <<"Broken", Prop("", Str("x"))>> >>

\* the property sets of the records a query may return: every name choice
\* with a date, every date choice with a name, neither, records that also
\* carry the venue fields, a record of only a title and the venue fields, and
\* a record with the fields of other types
MapRecords ==
    {n \o DateField \o PublicFields : n \in NameChoices}
      \cup {NameField \o d \o PublicFields : d \in DateChoices}
      \cup {PublicFields}
      \cup {NameField \o d \o SecretFields \o PublicFields : d \in {<<>>, DateField}}
      \cup {NameField \o SecretFields}
      \cup {NameField \o DateField \o OtherFields \o ComputedFields \o PublicFields}

SeqsUpTo(S, n) == UNION {[1..m -> S] : m \in 0..n}

IdleHome ==
    /\ hPc = "idle"
    /\ hLang = "pt"
    /\ hSection = FALSE
    /\ hListExists = FALSE
    /\ hList = <<>>
    /\ hPending = <<>>
    /\ hCalls = 0
    /\ hLastData = <<>>
    /\ hOverlapped = FALSE

IdleFlow ==
    /\ wPc = "idle"
    /\ wCheckCode = {}
    /\ wFetchCode = {}
    /\ wFetchRuns = 0
    /\ wExit = {}

IdleCheck ==
    /\ IdleFlow
    /\ cVariant = "dated"
    /\ cPc = "idle"
    /\ cFile = "unread"
    /\ cSync = Null
    /\ cEdited = Null
    /\ cScanned = "no"
    /\ cResults = <<>>
    /\ cNow = 0
    /\ cUpdated = FALSE
    /\ cDateChg = FALSE
    /\ cFetch = "pending"
    /\ cExit = {}

IdleSync ==
    /\ store = <<>>
    /\ sPc = "idle"
    /\ sCursor = 1
    /\ sAllPages = <<>>
    /\ sUQuery = "pending"
    /\ sNow = 0
    /\ sCalls = <<>>
    /\ sPending = {}
    /\ sOk = {}
    /\ sRejected = {}
    /\ sUpdatedCount = 0
    /\ sStatusUpdated = FALSE
    /\ sDelayed = FALSE
    /\ sEdited = Null
    /\ sPQuery = "pending"
    /\ sValid = <<>>
    /\ sNewHash = Null
    /\ sExisting = Null
    /\ sFound = Undef
    /\ sArtifact = Undef
    /\ sArtReads = 0
    /\ sArtWrites = 0
    /\ sCheckpoint = Null
    /\ sCkptWrites = 0
    /\ sExit = {}

IdleMap ==
    /\ IdleHome
    /\ mVariant = "full"
    /\ mPages = <<>>
    /\ mEvents = <<>>
    /\ mValid = <<>>
    /\ mHash = Null
    /\ mText = Undef
    /\ mReHash = Null
    /\ mPc = "idle"

InitMap ==
    /\ IdleCheck
    /\ IdleSync
    /\ IdleHome
    /\ mVariant \in {"full", "basic"}
    /\ mPages \in SeqsUpTo({[id |-> "page", props |-> r] : r \in MapRecords}, MaxPages)
    /\ mEvents = <<>>
    /\ mValid = <<>>
    /\ mHash = Null
    /\ mText = Undef
    /\ mReHash = Null
    /\ mPc = "fetched"

\* const events = response.results.map(...)
MapStep ==
    /\ mPc = "fetched"
    /\ mEvents' = MapEvents(mPages, mVariant)
    /\ mPc' = "mapped"
    /\ UNCHANGED <<mVariant, mPages, mValid, mHash, mText, mReHash, homeVars,
                   chkVars, syncVars>>

\* const validEvents = events.filter(...)
FilterStep ==
    /\ mPc = "mapped"
    /\ mValid' = FilterValid(mEvents)
    /\ mPc' = "filtered"
    /\ UNCHANGED <<mVariant, mPages, mEvents, mHash, mText, mReHash, homeVars,
                   chkVars, syncVars>>

\* const newHash = computeEventsHash(validEvents); ...
\* writeFile(outputPath, JSON.stringify(validEvents, null, 2))
PublishStep ==
    /\ mPc = "filtered"
    /\ mHash' = computeEventsHash(mValid)
    /\ mText' = JsonStringify(mValid, 2)
    /\ mPc' = "published"
    /\ UNCHANGED <<mVariant, mPages, mEvents, mValid, mReHash, homeVars,
                   chkVars, syncVars>>

\* getExistingEventsHash of the following run: readFile, JSON.parse,
\* computeEventsHash
RereadStep ==
    /\ mPc = "published"
    /\ mReHash' = computeEventsHash(JsonParse(mText))
    /\ mPc' = "reread"
    /\ UNCHANGED <<mVariant, mPages, mEvents, mValid, mHash, mText, homeVars,
                   chkVars, syncVars>>

NextMap == MapStep \/ FilterStep \/ PublishStep \/ RereadStep

SpecMap == InitMap /\ [][NextMap]_vars

(***************************************************************************)
(* Time.  Instants are ticks 0..MaxTime, TicksPerDay ticks to a local day. *)
(* A JS Date is [ok, t]; ok is FALSE for an Invalid Date (time value NaN). *)
(***************************************************************************)
MaxTime == 3

TicksPerDay == 2

Ticks == 0..MaxTime

InvalidDate == [ok |-> FALSE, t |-> 0]

\* new Date(string)
NewDate(x) == IF x.k = "iso" THEN [ok |-> TRUE, t |-> x.v] ELSE InvalidDate

\* d.setHours(0, 0, 0, 0)
SetHoursZero(d) ==
    IF d.ok THEN [ok |-> TRUE, t |-> (d.t \div TicksPerDay) * TicksPerDay] ELSE d

\* a < b on Dates (false when either is invalid)
DateLT(a, b) == a.ok /\ b.ok /\ a.t < b.t

\* a > b on Dates
DateGT(a, b) == a.ok /\ b.ok /\ a.t > b.t

\* a <= b on Dates
DateLE(a, b) == a.ok /\ b.ok /\ a.t <= b.t

\* page.properties.Date || page.properties.date, as a property or Undef
DateProp(page) ==
    IF HasKey(page.props, "Date") THEN Get(page.props, "Date")
    ELSE Get(page.props, "date")

\* a date check that compares the instants without setHours(0, 0, 0, 0)
DatePassedToTheTick(page, now) ==
    LET dateProp == DateProp(page)
    IN  /\ dateProp # Undef
        /\ dateProp.type = "date"
        /\ Truthy(dateProp.val)
        /\ DateLT(NewDate(dateProp.val), now)

\* dateProp && dateProp.type === "date" && dateProp.date, then
\* eventDate.setHours(0,0,0,0) < now, now being set to the start of its day
DatePassed(page, now) ==
    LET dateProp == DateProp(page)
    IN  /\ dateProp # Undef
        /\ dateProp.type = "date"
        /\ Truthy(dateProp.val)
        /\ DateLT(SetHoursZero(NewDate(dateProp.val)), SetHoursZero(now))

(***************************************************************************)
(* SpecCheck: one run of the staleness checker.                            *)
(***************************************************************************)
MaxScan == 2

\* a page of the events database
StorePage(id, name, date, status, visible) ==
    [id |-> id,
     props |-> (IF name = "" THEN <<>> ELSE << <<"Name", TitleProp(<<name>>)>> >>)
               \o (IF date = Undef THEN <<>> ELSE << <<"Date", Prop("date", date)>> >>)
               \o << <<"Status", Prop("status", Str(status))>>,
                      <<"Visible on site", Prop("checkbox", Bool(visible))>> >>]

\* what .last-sync may hold: nothing, text that is no timestamp, a timestamp
SyncContents == {Str(""), Str("n/a")} \cup {Iso(t) : t \in Ticks}

\* visible 'Upcoming' pages the scan's query may return
ScanPages ==
    {StorePage("p", "Meetup", d, "Upcoming", TRUE) :
        d \in {Undef, Null} \cup {Iso(t) : t \in Ticks}}

\* the loop of checkForDateBasedStatusChanges over response.results
AnyDatePassed(results, now) ==
    \E i \in 1..Len(results) : DatePassed(results[i], now)

InitCheck ==
    /\ IdleMap
    /\ IdleSync
    /\ IdleFlow
    /\ cVariant \in {"dated", "plain"}
    /\ cPc = "start"
    /\ cFile = "unread"
    /\ cSync = Null
    /\ cEdited = Null
    /\ cScanned = "no"
    /\ cResults = <<>>
    /\ cNow = 0
    /\ cUpdated = FALSE
    /\ cDateChg = FALSE
    /\ cFetch = "pending"
    /\ cExit = {}

\* a checker that treats missing credentials as a failure
MissingCredentialsExitOne == {1}

\* "If credentials missing, assume we should fetch (fail-safe)": process.exit(0)
MissingCredentialsExit == {0}

\* if (!NOTION_API_KEY || !NOTION_EVENTS_DATABASE_ID) process.exit(0)
CheckStart ==
    /\ cPc = "start"
    /\ \E credentials \in BOOLEAN :
          IF credentials
          THEN cPc' = "read" /\ UNCHANGED <<cFetch, cExit>>
          ELSE cPc' = "done" /\ cFetch' = "nocreds" /\ cExit' = MissingCredentialsExit
    /\ UNCHANGED <<cVariant, cFile, cSync, cEdited, cScanned, cResults, cNow,
                   cUpdated, cDateChg, flowVars,
                   mapVars, syncVars>>

\* readLastSyncTimestamp: ENOENT -> null, another error is rethrown,
\* else content.trim()
CheckReadSync ==
    /\ cPc = "read"
    /\ \/ /\ cFile' = "absent"
          /\ cSync' = Null
          /\ cPc' = "edited"
          /\ UNCHANGED cFetch
       \/ /\ cFile' = "unreadable"
          /\ cSync' = Null
          /\ cFetch' = "threw"
          /\ cPc' = "exit"
       \/ \E content \in SyncContents :
             /\ cFile' = "present"
             /\ cSync' = content
             /\ cPc' = "edited"
             /\ UNCHANGED cFetch
    /\ UNCHANGED <<cVariant, cEdited, cScanned, cResults, cNow, cUpdated,
                   cDateChg, cExit, flowVars,
                   mapVars, syncVars>>

\* getDatabaseLastEditedTime: database.last_edited_time, or null on error
CheckGetEdited ==
    /\ cPc = "edited"
    /\ \/ cEdited' = Null
       \/ \E t \in Ticks : cEdited' = Iso(t)
    /\ cPc' = "decide"
    /\ UNCHANGED <<cVariant, cFile, cSync, cScanned, cResults, cNow, cUpdated,
                   cDateChg, cFetch, cExit, flowVars,
                   mapVars, syncVars>>

\* a comparison of the two instants by their days
dbWasUpdatedByDay(lastSyncTimestamp, databaseLastEdited) ==
    DateGT(SetHoursZero(NewDate(databaseLastEdited)),
           SetHoursZero(NewDate(lastSyncTimestamp)))

\* dbEditedDate > lastSyncDate, lastSyncDate set to the start of its day
dbWasUpdated(lastSyncTimestamp, databaseLastEdited) ==
    DateGT(NewDate(databaseLastEdited), SetHoursZero(NewDate(lastSyncTimestamp)))

\* dbEditedDate <= lastSyncDate of the checker without the date scan
dbNotUpdatedPlain(lastSyncTimestamp, databaseLastEdited) ==
    DateLE(NewDate(databaseLastEdited), NewDate(lastSyncTimestamp))

\* a checker that goes on to compare dates without a checkpoint
NoPreviousSyncIgnored(lastSyncTimestamp) == FALSE

\* if (!lastSyncTimestamp) return true
NoPreviousSync(lastSyncTimestamp) == ~Truthy(lastSyncTimestamp)

\* a checker that goes on to compare dates without the remote timestamp
NoMetadataIgnored(databaseLastEdited) == FALSE

\* if (!databaseLastEdited) return true
NoMetadata(databaseLastEdited) == ~Truthy(databaseLastEdited)

\* checkIfFetchNeeded from the two reads up to its return or the date scan
CheckDecide ==
    /\ cPc = "decide"
    /\ IF NoPreviousSync(cSync) \/ NoMetadata(cEdited)
       THEN cFetch' = "yes" /\ cPc' = "exit" /\ UNCHANGED cUpdated
       ELSE IF cVariant = "plain"
       THEN /\ cFetch' = IF dbNotUpdatedPlain(cSync, cEdited) THEN "no" ELSE "yes"
            /\ cUpdated' = ~dbNotUpdatedPlain(cSync, cEdited)
            /\ cPc' = "exit"
       ELSE /\ cUpdated' = dbWasUpdated(cSync, cEdited)
            /\ cPc' = "scan"
            /\ UNCHANGED cFetch
    /\ UNCHANGED <<cVariant, cFile, cSync, cEdited, cScanned, cResults, cNow,
                   cDateChg, cExit, flowVars,
                   mapVars, syncVars>>

\* !dbWasUpdated && !hasDateBasedChanges -> false, else true
ShouldFetch(updated, dateChanges) == updated \/ dateChanges

\* checkForDateBasedStatusChanges (query error -> true) and the return of
\* checkIfFetchNeeded
CheckScan ==
    /\ cPc = "scan"
    /\ \/ /\ cScanned' = "failed"
          /\ cDateChg' = TRUE
          /\ UNCHANGED <<cResults, cNow>>
       \/ \E results \in SeqsUpTo(ScanPages, MaxScan), now \in Ticks :
             /\ cScanned' = "ok"
             /\ cResults' = results
             /\ cNow' = now
             /\ cDateChg' = AnyDatePassed(results, [ok |-> TRUE, t |-> now])
    /\ cFetch' = IF ShouldFetch(cUpdated, cDateChg') THEN "yes" ELSE "no"
    /\ cPc' = "exit"
    /\ UNCHANGED <<cVariant, cFile, cSync, cEdited, cUpdated, cExit, flowVars,
                   mapVars, syncVars>>

\* exit handling whose catch reports the error as exit code 2
ExitCodeErrorIsTwo(outcome) ==
    IF outcome = "no" THEN 1 ELSE IF outcome = "threw" THEN 2 ELSE 0

\* .then((shouldFetch) => process.exit(shouldFetch ? 0 : 1))
\* .catch(() => process.exit(0))
ExitCode(outcome) == IF outcome = "no" THEN 1 ELSE 0

CheckExit ==
    /\ cPc = "exit"
    /\ cExit' = {ExitCode(cFetch)}
    /\ cPc' = "done"
    /\ UNCHANGED <<cVariant, cFile, cSync, cEdited, cScanned, cResults, cNow,
                   cUpdated, cDateChg, cFetch, flowVars,
                   mapVars, syncVars>>

NextCheck ==
    \/ CheckStart
    \/ CheckReadSync
    \/ CheckGetEdited
    \/ CheckDecide
    \/ CheckScan
    \/ CheckExit

SpecCheck == InitCheck /\ [][NextCheck]_vars

(***************************************************************************)
(* SpecFlow: scripts/test-sync.mjs.  main spawns the checker, waits for    *)
(* its close event and then, depending on the code, spawns the fetch       *)
(* script.  The checker is the one of SpecCheck; the fetch script is       *)
(* taken by its exit code.                                                 *)
(***************************************************************************)
\* close codes of a checker that did not end through its own process.exit
AbnormalCodes == {2, 134}

\* close codes of the fetch script
FetchCodes == {0, 1}

InitFlow ==
    /\ IdleMap
    /\ IdleSync
    /\ cVariant = "dated"
    /\ cPc = "start"
    /\ cFile = "unread"
    /\ cSync = Null
    /\ cEdited = Null
    /\ cScanned = "no"
    /\ cResults = <<>>
    /\ cNow = 0
    /\ cUpdated = FALSE
    /\ cDateChg = FALSE
    /\ cFetch = "pending"
    /\ cExit = {}
    /\ wPc = "check"
    /\ wCheckCode = {}
    /\ wFetchCode = {}
    /\ wFetchRuns = 0
    /\ wExit = {}

\* if (checkExitCode === 0) ... else if (checkExitCode === 1) ... else ...
AfterCheck(code) ==
    IF code = 0 THEN "fetch" ELSE IF code = 1 THEN "skip" ELSE "fail"

\* what main does with checkExitCode
FlowOnCheckCode(code) ==
    /\ wCheckCode' = {code}
    /\ CASE AfterCheck(code) = "fetch" ->
              wPc' = "fetch" /\ wFetchRuns' = wFetchRuns + 1 /\ UNCHANGED wExit
         [] AfterCheck(code) = "skip" ->
              wPc' = "done" /\ wExit' = {0} /\ UNCHANGED wFetchRuns
         [] OTHER ->
              wPc' = "done" /\ wExit' = {1} /\ UNCHANGED wFetchRuns
    /\ UNCHANGED wFetchCode

\* child.on("close") of the checker that ended through process.exit
FlowCheckCloses ==
    /\ wPc = "check"
    /\ cPc = "done"
    /\ \E code \in cExit : FlowOnCheckCode(code)
    /\ UNCHANGED <<cVariant, cPc, cFile, cSync, cEdited, cScanned, cResults, cNow,
                   cUpdated, cDateChg, cFetch, cExit, mapVars, syncVars>>

\* child.on("close") of a checker that was ended from outside before its
\* own process.exit
FlowCheckAborted ==
    /\ wPc = "check"
    /\ cPc \notin {"done", "aborted"}
    /\ cPc' = "aborted"
    /\ \E code \in AbnormalCodes : FlowOnCheckCode(code)
    /\ UNCHANGED <<cVariant, cFile, cSync, cEdited, cScanned, cResults, cNow,
                   cUpdated, cDateChg, cFetch, cExit, mapVars, syncVars>>

\* child.on("close") of the fetch script
FlowFetchCloses ==
    /\ wPc = "fetch"
    /\ \E code \in FetchCodes :
          /\ wFetchCode' = {code}
          /\ wExit' = IF code = 0 THEN {0} ELSE {1}
    /\ wPc' = "done"
    /\ UNCHANGED <<wCheckCode, wFetchRuns, cVariant, cPc, cFile, cSync, cEdited,
                   cScanned, cResults, cNow, cUpdated, cDateChg, cFetch, cExit,
                   mapVars, syncVars>>

NextFlow ==
    \/ CheckStart
    \/ CheckReadSync
    \/ CheckGetEdited
    \/ CheckDecide
    \/ CheckScan
    \/ CheckExit
    \/ FlowCheckCloses
    \/ FlowCheckAborted
    \/ FlowFetchCloses

SpecFlow == InitFlow /\ [][NextFlow]_vars

(***************************************************************************)
(* The remote store as the sync script sees it.                            *)
(***************************************************************************)
MaxRecords == 3

QueryPageSize == 2

\* the page of the record at index id
PageOf(id) ==
    StorePage(id, "Meetup", store[id].date, store[id].status, store[id].visible)

\* date: Null for an empty Date property (the database has the property, the
\* primary query sorts on it, so every page carries it)
RecordStates ==
    {[visible |-> FALSE, status |-> "Upcoming", date |-> Iso(0)]}
      \cup [visible : {TRUE}, status : {"Upcoming", "Past"},
            date : {Null} \cup {Iso(t) : t \in Ticks}]

\* records are interchangeable: each multiset of records is listed once, in
\* an order that is not the order of the dates
Rank(r) ==
    (IF r.visible THEN 0 ELSE 1) + 2 * (IF r.status = "Past" THEN 1 ELSE 0)
      + 4 * (IF r.date.k = "iso" THEN r.date.v + 2
             ELSE IF r.date = Null THEN 1 ELSE 0)

Stores ==
    {st \in SeqsUpTo(RecordStates, MaxRecords) :
        \A i \in 1..(Len(st) - 1) : Rank(st[i]) >= Rank(st[i + 1])}

\* ids of the records matching filter "Visible on site" = true [and Status = Upcoming]
RECURSIVE Matching(_, _)
Matching(n, upcomingOnly) ==
    IF n = 0 THEN <<>>
    ELSE LET rest == Matching(n - 1, upcomingOnly)
         IN  IF store[n].visible /\ (~upcomingOnly \/ store[n].status = "Upcoming")
             THEN Append(rest, n) ELSE rest

\* sorts: Date ascending (records without a date last)
DateKey(id) == IF store[id].date.k = "iso" THEN store[id].date.v ELSE MaxTime + 1

RECURSIVE InsertByDate(_, _)
InsertByDate(ids, id) ==
    IF ids = <<>> THEN <<id>>
    ELSE IF DateKey(id) < DateKey(Head(ids)) THEN <<id>> \o ids
         ELSE <<Head(ids)>> \o InsertByDate(Tail(ids), id)

\* a query without the sorts parameter: the store's own order
SortByDateOmitted(ids) == ids

RECURSIVE SortByDate(_)
SortByDate(ids) ==
    IF ids = <<>> THEN <<>>
    ELSE InsertByDate(SortByDate(SubSeq(ids, 1, Len(ids) - 1)), ids[Len(ids)])

Min(a, b) == IF a < b THEN a ELSE b

\* one response of notion.databases.query over the matching ids from cursor
QueryResponse(ids, cursor) ==
    LET last == Min(Len(ids), cursor + QueryPageSize - 1)
    IN  [results |-> [i \in 1..(last - cursor + 1) |-> PageOf(ids[cursor + i - 1])],
         has_more |-> last < Len(ids),
         next_cursor |-> last + 1]

\* the single response read by checkForDateBasedStatusChanges (page_size: 10,
\* scaled to MaxScan; no start_cursor is ever passed)
ScanQuery(ids) == [i \in 1..Min(Len(ids), MaxScan) |-> PageOf(ids[i])]

\* all pages of a query over the matching ids
AllPagesOf(ids) == [i \in 1..Len(ids) |-> PageOf(ids[i])]

(***************************************************************************)
(* Spec: one run of the sync script (fetchAndWriteEvents with              *)
(* updateEventStatusesInNotion).                                           *)
(***************************************************************************)
Init ==
    /\ IdleMap
    /\ IdleCheck
    /\ store \in Stores
    /\ sPc = "start"
    /\ sCursor = 1
    /\ sAllPages = <<>>
    /\ sUQuery = "pending"
    /\ sNow = 0
    /\ sCalls = <<>>
    /\ sPending = {}
    /\ sOk = {}
    /\ sRejected = {}
    /\ sUpdatedCount = 0
    /\ sStatusUpdated = FALSE
    /\ sDelayed = FALSE
    /\ sEdited = Null
    /\ sPQuery = "pending"
    /\ sValid = <<>>
    /\ sNewHash = Null
    /\ sExisting = Null
    /\ sFound = Undef
    /\ sArtifact = Undef
    /\ sArtReads = 0
    /\ sArtWrites = 0
    /\ sCheckpoint = Null
    /\ sCkptWrites = 0
    /\ sExit = {}

\* if (!NOTION_API_KEY) process.exit(1); if (!NOTION_EVENTS_DATABASE_ID) ...
SyncStart ==
    /\ sPc = "start"
    /\ \E credentials \in BOOLEAN :
          IF credentials
          THEN sPc' = "uquery" /\ UNCHANGED sExit
          ELSE sPc' = "done" /\ sExit' = {1}
    /\ UNCHANGED <<store, sCursor, sAllPages, sUQuery, sNow, sCalls, sPending,
                   sOk, sRejected, sUpdatedCount, sStatusUpdated, sDelayed,
                   sEdited, sPQuery, sValid, sNewHash, sExisting, sFound,
                   sArtifact, sArtWrites, sCheckpoint, sCkptWrites,
                   sArtReads,
                   mapVars, chkVars>>

\* process.exit(1) in the catch of fetchAndWriteEvents
ExitOnErrorZero == {0}

ExitOnError == {1}

\* an updater whose catch ends the run
UpdaterErrorAborts == [pc |-> "done", exit |-> ExitOnError]

\* the updater's catch: "Don't fail the entire sync if status updates fail",
\* return false; the run goes on with getDatabaseLastEditedTime
UpdaterErrorOutcome == [pc |-> "lastEdited", exit |-> {}]

\* one turn of the while (hasMore) loop; a query error is caught by the
\* updater's catch, which returns false
UpdaterQueryPage ==
    /\ sPc = "uquery"
    /\ \/ /\ sUQuery' = "failed"
          /\ sStatusUpdated' = FALSE
          /\ sPc' = UpdaterErrorOutcome.pc
          /\ sExit' = UpdaterErrorOutcome.exit
          /\ UNCHANGED <<sAllPages, sCursor>>
       \/ LET response == QueryResponse(Matching(Len(store), TRUE), sCursor)
          IN  /\ sAllPages' = sAllPages \o response.results
              /\ sCursor' = response.next_cursor
              /\ sUQuery' = IF response.has_more THEN "pending" ELSE "ok"
              /\ sPc' = IF response.has_more THEN "uquery" ELSE "issue"
              /\ UNCHANGED <<sStatusUpdated, sExit>>
    /\ UNCHANGED <<store, sNow, sCalls, sPending, sOk, sRejected, sUpdatedCount,
                   sDelayed, sEdited, sPQuery, sValid, sNewHash, sExisting,
                   sFound, sArtifact, sArtWrites, sCheckpoint, sCkptWrites,
                   sArtReads,
                   mapVars, chkVars>>

\* an update call that writes the status the page already has
UpdateCallKeepsStatus(page) == [page_id |-> page.id, status |-> "Upcoming"]

\* notion.pages.update({page_id, properties: {Status: {status: {name: "Past"}}}})
UpdateCall(page) == [page_id |-> page.id, status |-> "Past"]

\* the for loop over allPages: one call per page whose date has passed
RECURSIVE CallsFor(_, _)
CallsFor(pages, now) ==
    IF pages = <<>> THEN <<>>
    ELSE IF DatePassed(Head(pages), now)
         THEN <<UpdateCall(Head(pages))>> \o CallsFor(Tail(pages), now)
         ELSE CallsFor(Tail(pages), now)

\* now = new Date(); the for loop issuing the calls; with no call the
\* updater returns updatedCount > 0, i.e. false
UpdaterIssue ==
    /\ sPc = "issue"
    /\ \E now \in Ticks :
          /\ sNow' = now
          /\ sCalls' = CallsFor(sAllPages, [ok |-> TRUE, t |-> now])
    /\ sPending' = 1..Len(sCalls')
    /\ sPc' = IF sCalls' = <<>> THEN "lastEdited" ELSE "await"
    /\ UNCHANGED <<store, sCursor, sAllPages, sUQuery, sOk, sRejected,
                   sUpdatedCount, sStatusUpdated, sDelayed, sEdited, sPQuery,
                   sValid, sNewHash, sExisting, sFound, sArtifact, sArtWrites,
                   sCheckpoint, sCkptWrites, sExit, sArtReads,
                   mapVars, chkVars>>

\* one update call settles: .then(() => { updatedCount++ }) with the store
\* having applied it, or .catch(() => false)
UpdateSettles ==
    /\ sPc # "done"
    /\ \E c \in sPending, succeeds \in BOOLEAN :
          /\ sPending' = sPending \ {c}
          /\ IF succeeds
             THEN /\ store' = [store EXCEPT ![sCalls[c].page_id].status =
                                                 sCalls[c].status]
                  /\ sUpdatedCount' = sUpdatedCount + 1
                  /\ sOk' = sOk \cup {c}
                  /\ UNCHANGED sRejected
             ELSE /\ sRejected' = sRejected \cup {c}
                  /\ UNCHANGED <<store, sUpdatedCount, sOk>>
    /\ UNCHANGED <<sPc, sCursor, sAllPages, sUQuery, sNow, sCalls,
                   sStatusUpdated, sDelayed, sEdited, sPQuery, sValid, sNewHash,
                   sExisting, sFound, sArtifact, sArtWrites, sCheckpoint,
                   sCkptWrites, sExit, sArtReads,
                   mapVars, chkVars>>

\* a Promise.all that rejects with the first failed call
AnyRejectedOrAllSettled(pending, rejected) == pending = {} \/ rejected # {}

\* await Promise.all(updatePromises), every promise catching its own error
AllSettled(pending, rejected) == pending = {}

\* an updater that reports a change whenever it issued a call
UpdaterResultAnyIssued(updatedCount, calls) == calls # <<>>

\* return updatedCount > 0
UpdaterResult(updatedCount, calls) == updatedCount > 0

\* return updatedCount > 0, and the caller's if (statusUpdated)
UpdaterReturn ==
    /\ sPc = "await"
    /\ AllSettled(sPending, sRejected)
    /\ sStatusUpdated' = UpdaterResult(sUpdatedCount, sCalls)
    /\ sPc' = IF sStatusUpdated' THEN "delay" ELSE "lastEdited"
    /\ UNCHANGED <<store, sCursor, sAllPages, sUQuery, sNow, sCalls, sPending,
                   sOk, sRejected, sUpdatedCount, sDelayed, sEdited, sPQuery,
                   sValid, sNewHash, sExisting, sFound, sArtifact, sArtWrites,
                   sCheckpoint, sCkptWrites, sExit, sArtReads,
                   mapVars, chkVars>>

\* await new Promise(resolve => setTimeout(resolve, 1000))
SettleDelay ==
    /\ sPc = "delay"
    /\ sDelayed' = TRUE
    /\ sPc' = "lastEdited"
    /\ UNCHANGED <<store, sCursor, sAllPages, sUQuery, sNow, sCalls, sPending,
                   sOk, sRejected, sUpdatedCount, sStatusUpdated, sEdited,
                   sPQuery, sValid, sNewHash, sExisting, sFound, sArtifact,
                   sArtWrites, sCheckpoint, sCkptWrites, sExit, sArtReads,
                   mapVars, chkVars>>

\* the run only passes database.last_edited_time on to the checkpoint file:
\* the earliest and the latest instant stand for all
EditedTimes == {0, MaxTime}

\* getDatabaseLastEditedTime: database.last_edited_time, or null on error
SyncGetEdited ==
    /\ sPc = "lastEdited"
    /\ \/ sEdited' = Null
       \/ \E t \in EditedTimes : sEdited' = Iso(t)
    /\ sPc' = "query"
    /\ UNCHANGED <<store, sCursor, sAllPages, sUQuery, sNow, sCalls, sPending,
                   sOk, sRejected, sUpdatedCount, sStatusUpdated, sDelayed,
                   sPQuery, sValid, sNewHash, sExisting, sFound, sArtifact,
                   sArtWrites, sCheckpoint, sCkptWrites, sExit, sArtReads,
                   mapVars, chkVars>>

\* the query for visible records sorted by Date (its first response only),
\* then map, filter and computeEventsHash; a query error ends in exit(1)
PrimaryQuery ==
    /\ sPc = "query"
    /\ \/ /\ sPQuery' = "failed"
          /\ sPc' = "done"
          /\ sExit' = ExitOnError
          /\ UNCHANGED <<sValid, sNewHash>>
       \/ LET response == QueryResponse(SortByDate(Matching(Len(store), FALSE)), 1)
          IN  /\ sPQuery' = "ok"
              /\ sValid' = FilterValid(MapEvents(response.results, "full"))
              /\ sNewHash' = computeEventsHash(sValid')
              /\ sPc' = "readArtifact"
              /\ UNCHANGED sExit
    /\ UNCHANGED <<store, sCursor, sAllPages, sUQuery, sNow, sCalls, sPending,
                   sOk, sRejected, sUpdatedCount, sStatusUpdated, sDelayed,
                   sEdited, sExisting, sFound, sArtifact, sArtWrites,
                   sCheckpoint, sCkptWrites, sArtReads,
                   mapVars, chkVars>>

\* an event published by an earlier run and no longer in the store
StaleEvent == << <<"Name", Str("Old meetup")>>, <<"Date", Iso(0)>> >>

RECURSIVE Reverse(_)
Reverse(q) == IF q = <<>> THEN <<>> ELSE Append(Reverse(Tail(q)), Head(q))

\* the same events as mapped from pages whose properties the store listed in
\* the opposite order
FieldsReordered(events) ==
    [i \in 1..Len(events) |->
        AddDatePretty(Reverse(Delete(events[i], "datePretty")))]

\* what public/events.json may hold when the run reads it: nothing (Null),
\* unparseable text, or the text an earlier run wrote
ArtifactsFound(events) ==
    {Null, CorruptText, JsonStringify(events, 2), JsonStringify(<<>>, 2),
     JsonStringify(<<StaleEvent>>, 2), JsonStringify(FieldsReordered(events), 2)}

\* a comparison that also takes a missing artifact for unchanged content
UnchangedOrMissing(existingHash, newHash) ==
    ~Truthy(existingHash) \/ newHash = existingHash

\* existingHash && newHash === existingHash
Unchanged(existingHash, newHash) == Truthy(existingHash) /\ newHash = existingHash

\* a run that never records the sync timestamp
NeverWriteCheckpoint(databaseLastEdited) == FALSE

\* if (databaseLastEdited) await writeLastSyncTimestamp(databaseLastEdited)
ShouldWriteCheckpoint(databaseLastEdited) == Truthy(databaseLastEdited)

\* getExistingEventsHash (ENOENT -> null, a parse error is rethrown and ends
\* in exit(1)) and the comparison; unchanged content without a timestamp to
\* record ends in process.exit(0)
ReadArtifact ==
    /\ sPc = "readArtifact"
    /\ \E found \in ArtifactsFound(sValid) :
          /\ sFound' = found
          /\ sArtifact' = found
          /\ sArtReads' = sArtReads + 1
          /\ IF found = Null
             THEN sExisting' = Null
             ELSE IF JsonParses(found)
             THEN sExisting' = computeEventsHash(JsonParse(found))
             ELSE sExisting' = Undef
          /\ IF found # Null /\ ~JsonParses(found)
             THEN sPc' = "done" /\ sExit' = ExitOnError
             ELSE IF Unchanged(sExisting', sNewHash)
             THEN IF ShouldWriteCheckpoint(sEdited)
                  THEN sPc' = "ckpt" /\ UNCHANGED sExit
                  ELSE sPc' = "done" /\ sExit' = {0}
             ELSE sPc' = "write" /\ UNCHANGED sExit
    /\ UNCHANGED <<store, sCursor, sAllPages, sUQuery, sNow, sCalls, sPending,
                   sOk, sRejected, sUpdatedCount, sStatusUpdated, sDelayed,
                   sEdited, sPQuery, sValid, sNewHash, sArtWrites, sCheckpoint,
                   sCkptWrites, mapVars, chkVars>>

\* mkdir(publicDir), writeFile(outputPath, JSON.stringify(validEvents, null, 2));
\* without a timestamp to record the run ends here
WriteArtifact ==
    /\ sPc = "write"
    /\ sArtifact' = JsonStringify(sValid, 2)
    /\ sArtWrites' = sArtWrites + 1
    /\ IF ShouldWriteCheckpoint(sEdited)
       THEN sPc' = "ckpt" /\ UNCHANGED sExit
       ELSE sPc' = "done" /\ sExit' = {0}
    /\ UNCHANGED <<store, sCursor, sAllPages, sUQuery, sNow, sCalls, sPending,
                   sOk, sRejected, sUpdatedCount, sStatusUpdated, sDelayed,
                   sEdited, sPQuery, sValid, sNewHash, sExisting, sFound,
                   sCheckpoint, sCkptWrites, sArtReads,
                   mapVars, chkVars>>

\* an unchanged branch without its process.exit(0): the run falls through to
\* mkdir and writeFile
AfterCheckpointFallsThrough(artWrites) == IF artWrites = 0 THEN "write" ELSE "done"

\* after writeLastSyncTimestamp: process.exit(0) in the unchanged branch, the
\* end of the try block after a write
AfterCheckpoint(artWrites) == "done"

\* writeLastSyncTimestamp(databaseLastEdited), then the run ends with code 0
WriteCheckpoint ==
    /\ sPc = "ckpt"
    /\ sCheckpoint' = sEdited
    /\ sCkptWrites' = sCkptWrites + 1
    /\ sPc' = AfterCheckpoint(sArtWrites)
    /\ sExit' = IF sPc' = "done" THEN {0} ELSE sExit
    /\ UNCHANGED <<store, sCursor, sAllPages, sUQuery, sNow, sCalls, sPending,
                   sOk, sRejected, sUpdatedCount, sStatusUpdated, sDelayed,
                   sEdited, sPQuery, sValid, sNewHash, sExisting, sFound,
                   sArtifact, sArtWrites, sArtReads,
                   mapVars, chkVars>>

Next ==
    \/ SyncStart
    \/ UpdaterQueryPage
    \/ UpdaterIssue
    \/ UpdateSettles
    \/ UpdaterReturn
    \/ SettleDelay
    \/ SyncGetEdited
    \/ PrimaryQuery
    \/ ReadArtifact
    \/ WriteArtifact
    \/ WriteCheckpoint

Spec == Init /\ [][Next]_vars

(***************************************************************************)
(* SpecHome: the home page's event list (assets/js/events.js).  A call of  *)
(* renderHomeEvents runs up to its await, and resumes when its fetch has   *)
(* settled; calls resume in any order.  A list node is                     *)
(* [kind, event, text]: text is the language of the node's translated      *)
(* text ("" for a node without data-i18n attributes).                      *)
(***************************************************************************)
\* CONFIG.MAX_HOME_EVENTS
MAX_HOME_EVENTS == 3

\* number of renderHomeEvents calls followed
MaxRenders == 3

\* the languages of the i18n table
Langs == {"pt", "en"}

\* a record of the events database as the query returns it
HomePage(name, status, dateKey, t) ==
    [id |-> "page",
     props |-> << <<"Name", TitleProp(<<name>>)>>,
                  <<dateKey, Prop("date", Iso(t))>>,
                  <<"Status", Prop("status", status)>>,
                  <<"Language", Prop("multi_select", Arr(<<Str("PT")>>))>> >>]

\* results of the sync's query, in the order of its sorts (Date ascending, a
\* record without a Date last): none; a past event; four upcoming events
\* among a past one and one without a status; two upcoming events; an
\* upcoming event whose date is held under the key 'date'; two upcoming
\* events on the same date
HomePageLists ==
    { <<>>,
      << HomePage("a", Str("Past"), "Date", 0) >>,
      << HomePage("a", Str("Past"), "Date", 0),
         HomePage("b", Str("Upcoming"), "Date", 1),
         HomePage("c", Null, "Date", 1),
         HomePage("d", Str("Upcoming"), "Date", 2),
         HomePage("e", Str("Upcoming"), "Date", 3),
         HomePage("f", Str("Upcoming"), "Date", 4) >>,
      << HomePage("b", Str("Upcoming"), "Date", 1),
         HomePage("d", Str("Upcoming"), "Date", 2) >>,
      << HomePage("b", Str("Upcoming"), "Date", 1),
         HomePage("g", Str("Upcoming"), "date", 1) >>,
      << HomePage("d", Str("Upcoming"), "Date", 2),
         HomePage("h", Str("Upcoming"), "Date", 2) >> }

\* public/events.json as the sync writes it
ServedFiles ==
    {JsonStringify(FilterValid(MapEvents(results, "full")), 2) : results \in HomePageLists}

\* the text of a JSON value that is not an array
ObjectText == [k |-> "jsonobject", indent |-> 0, v |-> <<>>]

\* what fetch(CONFIG.EVENTS_JSON_PATH) settles with: a rejection, a response
\* that is not ok, or an ok response with a body
Responses ==
    {[settled |-> "rejected", ok |-> FALSE, body |-> CorruptText],
     [settled |-> "fulfilled", ok |-> FALSE, body |-> CorruptText]}
      \cup {[settled |-> "fulfilled", ok |-> TRUE, body |-> b] :
               b \in ServedFiles \cup {CorruptText, ObjectText}}

formatEvent(event) ==
    [name |-> JsOr(Get(event, "Name"), Str("")),
     type |-> JsOr(Get(event, "Type"), Str("")),
     status |-> JsOr(Get(event, "Status"), Str("")),
     dateISO |-> JsOr(Get(event, "Date"), Str("")),
     datePretty |-> JsOr(Get(event, "datePretty"), Str("")),
     lang |-> IF Get(event, "Language").k = "arr" THEN Get(event, "Language") ELSE Arr(<<>>),
     link |-> JsOr(Get(event, "Link"), Null)]

\* try { ... return Array.isArray(data) ? data.map(formatEvent) : [] }
\* catch (error) { return [] }
fetchEvents(response) ==
    IF response.settled = "fulfilled" /\ response.ok /\ response.body.k = "json"
    THEN LET data == JsonParse(response.body)
         IN  [i \in 1..Len(data) |-> formatEvent(data[i])]
    ELSE <<>>

IsUpcoming(e) == e.status = Str("Upcoming")

\* new Date(a.dateISO) - new Date(b.dateISO); sort takes a NaN result as 0
CompareDateISO(a, b) ==
    LET da == NewDate(a.dateISO)
        db == NewDate(b.dateISO)
    IN  IF da.ok /\ db.ok THEN da.t - db.t ELSE 0

\* e placed behind the last element that does not compare greater than it
RECURSIVE InsertSorted(_, _)
InsertSorted(sorted, e) ==
    IF sorted = <<>> THEN <<e>>
    ELSE IF CompareDateISO(sorted[Len(sorted)], e) > 0
         THEN Append(InsertSorted(SubSeq(sorted, 1, Len(sorted) - 1), e),
                     sorted[Len(sorted)])
         ELSE Append(sorted, e)

\* .sort((a, b) => new Date(a.dateISO) - new Date(b.dateISO)) (stable)
RECURSIVE SortByDateISO(_)
SortByDateISO(events) ==
    IF events = <<>> THEN <<>>
    ELSE InsertSorted(SortByDateISO(SubSeq(events, 1, Len(events) - 1)),
                      events[Len(events)])

\* events.filter(e => e.status === 'Upcoming').sort(...)
UpcomingOf(events) == SortByDateISO(SelectSeq(events, IsUpcoming))

\* upcoming.slice(0, CONFIG.MAX_HOME_EVENTS)
HomeSlice(upcoming) == SubSeq(upcoming, 1, Min(Len(upcoming), MAX_HOME_EVENTS))

NoEvent == formatEvent(<<>>)

createSkeletonRow == [kind |-> "skeleton", event |-> NoEvent, text |-> ""]

\* the .event-row element; its call-to-action carries data-i18n attributes
createEventRow(event, lang) == [kind |-> "row", event |-> event, text |-> lang]

\* <p class="events__empty" data-i18n-pt=... data-i18n-en=...>
EmptyState(lang) == [kind |-> "empty", event |-> NoEvent, text |-> lang]

\* every element with data-i18n attributes takes the text of lang
updateI18n(list, lang) ==
    [i \in 1..Len(list) |->
        IF list[i].text = "" THEN list[i] ELSE [list[i] EXCEPT !.text = lang]]

\* a resuming call that appends below what the container holds
KeepList(list) == list

\* listContainer.innerHTML = ''
ClearList(list) == <<>>

\* renderHomeEvents up to `await fetchEvents()`
RenderUntilAwait ==
    /\ hCalls' = hCalls + 1
    /\ IF hSection
       THEN /\ hListExists' = TRUE
            /\ hList' = <<createSkeletonRow, createSkeletonRow, createSkeletonRow>>
            /\ hPending' = Append(hPending, hLang')
            /\ hOverlapped' = (hOverlapped \/ hPending # <<>>)
       ELSE UNCHANGED <<hListExists, hList, hPending, hOverlapped>>

\* renderHomeEvents after the await, for the events it was given
RenderAfterAwait(lang, events) ==
    LET upcoming == UpcomingOf(events)
        homeEvents == HomeSlice(upcoming)
        rows == [i \in 1..Len(homeEvents) |-> createEventRow(homeEvents[i], lang)]
    IN  IF Len(upcoming) = 0
        THEN updateI18n(<<EmptyState(lang)>>, hLang)
        ELSE updateI18n(ClearList(hList) \o rows, hLang)

InitHome ==
    /\ IdleCheck
    /\ IdleSync
    /\ mVariant = "full"
    /\ mPages = <<>>
    /\ mEvents = <<>>
    /\ mValid = <<>>
    /\ mHash = Null
    /\ mText = Undef
    /\ mReHash = Null
    /\ mPc = "idle"
    /\ hPc = "loading"
    /\ hLang \in Langs
    /\ hSection \in BOOLEAN
    /\ hListExists = FALSE
    /\ hList = <<>>
    /\ hPending = <<>>
    /\ hCalls = 0
    /\ hLastData = <<>>
    /\ hOverlapped = FALSE

\* DOMContentLoaded: if (document.querySelector('#events')) renderHomeEvents()
HomeDomReady ==
    /\ hPc = "loading"
    /\ hPc' = "ready"
    /\ hLang' = hLang
    /\ IF hSection
       THEN RenderUntilAwait
       ELSE UNCHANGED <<hListExists, hList, hPending, hCalls, hOverlapped>>
    /\ UNCHANGED <<hSection, hLastData, mVariant, mPages, mEvents, mValid, mHash,
                   mText, mReHash, mPc, chkVars, syncVars>>

\* window.switchLang(lang): originalSwitchLang(lang); updateI18n();
\* if (document.querySelector('#events')) renderHomeEvents()
HomeSwitchLang ==
    /\ hPc = "ready"
    /\ hCalls < MaxRenders
    /\ \E lang \in Langs : hLang' = lang
    /\ IF hSection
       THEN RenderUntilAwait
       ELSE /\ hList' = updateI18n(hList, hLang')
            /\ UNCHANGED <<hListExists, hPending, hCalls, hOverlapped>>
    /\ UNCHANGED <<hPc, hSection, hLastData, mVariant, mPages, mEvents, mValid,
                   mHash, mText, mReHash, mPc, chkVars, syncVars>>

\* window.renderHomeEvents() called by the page
HomeRenderCall ==
    /\ hPc = "ready"
    /\ hCalls < MaxRenders
    /\ hLang' = hLang
    /\ RenderUntilAwait
    /\ UNCHANGED <<hPc, hSection, hLastData, mVariant, mPages, mEvents, mValid,
                   mHash, mText, mReHash, mPc, chkVars, syncVars>>

\* the fetch of one pending call settles and the call runs to its end
HomeFetchSettles ==
    /\ \E i \in 1..Len(hPending), response \in Responses :
          LET events == fetchEvents(response)
          IN  /\ hList' = RenderAfterAwait(hPending[i], events)
              /\ hLastData' = events
              /\ hPending' = SubSeq(hPending, 1, i - 1)
                               \o SubSeq(hPending, i + 1, Len(hPending))
    /\ UNCHANGED <<hPc, hLang, hSection, hListExists, hCalls, hOverlapped,
                   mVariant, mPages, mEvents, mValid, mHash, mText, mReHash, mPc,
                   chkVars, syncVars>>

NextHome ==
    \/ HomeDomReady
    \/ HomeSwitchLang
    \/ HomeRenderCall
    \/ HomeFetchSettles

SpecHome == InitHome /\ [][NextHome]_vars

(***************************************************************************)
(* Claims on the mapped and published collection                           *)
(***************************************************************************)
SecretKeys == {"Place Name", "Place Link", "Location", "Visible on site"}

\* a non-empty string
NonEmptyText(x) == (x.k = "str" /\ x.v # "") \/ x.k \in {"iso", "pretty"}

HasName(event) ==
    \E key \in {"Name", "name"} : HasKey(event, key) /\ NonEmptyText(Get(event, key))

HasDate(event) ==
    \E key \in {"Date", "date"} : HasKey(event, key) /\ NonEmptyText(Get(event, key))

\* C1: no event of the published collection carries one of the keys
\* 'Place Name', 'Place Link', 'Location', 'Visible on site', whichever
\* fetch script produced the collection.
C1_NoSecretKeyPublished ==
    mPc = "filtered" =>
        \A i \in 1..Len(mValid) : Keys(mValid[i]) \cap SecretKeys = {}

\* C1, restricted to the script with status updates
C1_NoSecretKeyFull ==
    (mPc = "filtered" /\ mVariant = "full") =>
        \A i \in 1..Len(mValid) : Keys(mValid[i]) \cap SecretKeys = {}

\* C2: every published event has a non-empty name and a non-empty date, and
\* the published collection is the mapped collection with exactly the events
\* lacking a name or a date removed, the others in their original order.
C2_PublishedHaveNameAndDate ==
    mPc = "filtered" =>
        /\ \A i \in 1..Len(mValid) : HasName(mValid[i]) /\ HasDate(mValid[i])
        /\ \E f \in [1..Len(mValid) -> 1..Len(mEvents)] :
              /\ \A i, j \in 1..Len(mValid) : i < j => f[i] < f[j]
              /\ \A i \in 1..Len(mValid) : mValid[i] = mEvents[f[i]]
              /\ \A j \in 1..Len(mEvents) :
                    (\A i \in 1..Len(mValid) : f[i] # j)
                        <=> ~(HasName(mEvents[j]) /\ HasDate(mEvents[j]))

\* a record without a date between two differing publishable records is dropped
C2_Witness ==
    /\ mPc = "filtered"
    /\ Len(mEvents) = 3
    /\ Len(mValid) = 2
    /\ ~HasDate(mEvents[2])
    /\ mValid[1] # mValid[2]

(***************************************************************************)
(* Claims on the staleness checker                                         *)
(***************************************************************************)
DayOf(t) == t \div TicksPerDay

CheckReturned == cPc \in {"exit", "done"} /\ cFetch \in {"yes", "no"}

\* some scanned record has a date on a day before today
ScannedPassed ==
    \E i \in 1..Len(cResults) :
        \E key \in {"Date", "date"} :
            /\ HasKey(cResults[i].props, key)
            /\ Get(cResults[i].props, key).val.k = "iso"
            /\ DayOf(Get(cResults[i].props, key).val.v) < DayOf(cNow)

\* C4: with a checkpoint timestamp, the remote timestamp obtained and the
\* scan done, the checker reports 'sync needed' iff the remote timestamp is
\* strictly newer than the checkpoint or a scanned record's date has passed.
C4_SyncNeededIffNewerOrPassed ==
    (CheckReturned /\ cSync.k = "iso" /\ cEdited.k = "iso" /\ cScanned = "ok") =>
        (cFetch = "yes" <=> (cEdited.v > cSync.v \/ ScannedPassed))

\* C5: without a checkpoint file the checker reports 'sync needed' and
\* exits 0, whatever the metadata lookup returned.
C5_AbsentCheckpointFetches ==
    (cFile = "absent" /\ cPc \in {"exit", "done"}) =>
        /\ cFetch = "yes"
        /\ cPc = "done" => cExit = {0}

C5_Witness ==
    /\ cFile = "absent"
    /\ cPc = "done"
    /\ cVariant = "dated"
    /\ cEdited.k = "iso"

\* C6: 'skip' is reported only with a checkpoint, the remote timestamp
\* obtained and not newer than it and, in the checker with the date scan,
\* the scan completed without a passed record; a failed read ends in exit 0.
C6_SkipOnlyWhenAllReadsSucceeded ==
    /\ cFetch = "no" =>
          /\ cFile = "present"
          /\ cSync # Null
          /\ cEdited.k = "iso"
          /\ ~(cSync.k = "iso" /\ cEdited.v > cSync.v)
          /\ cVariant = "dated" => (cScanned = "ok" /\ ~ScannedPassed)
    /\ (cPc = "done" /\ (cFile = "unreadable" \/ cScanned = "failed"
                          \/ (cFile # "unread" /\ cEdited = Null))) =>
          cExit = {0}

C6_Witness ==
    /\ cPc = "done"
    /\ cFile = "present"
    /\ cSync.k = "iso"
    /\ cEdited = Null
    /\ cExit = {0}

\* C7: exit code 0 exactly for 'fetch needed', 1 exactly for 'skip', and
\* another value when the checker fails with an unexpected error.
C7_ExitCodeOtherOnError ==
    cPc = "done" =>
        /\ cExit = {0} <=> cFetch \in {"yes", "nocreds"}
        /\ cExit = {1} <=> cFetch = "no"
        /\ cFetch = "threw" => cExit \cap {0, 1} = {}

\* C7 as the code has it: exit code 1 exactly for 'skip'; exit code 0 for
\* 'fetch needed', for missing credentials and for an unexpected error; no
\* other exit code.
C7_ExitCodeZeroOnError ==
    cPc = "done" =>
        /\ cExit = {1} <=> cFetch = "no"
        /\ cExit = {0} <=> cFetch \in {"yes", "nocreds", "threw"}
        /\ cExit \in {{0}, {1}}

C7_Witness ==
    /\ cPc = "done"
    /\ cFetch = "threw"
    /\ cExit = {0}

(***************************************************************************)
(* Claims on the sync run                                                  *)
(***************************************************************************)
\* the run got past getExistingEventsHash with a digest or with none
ComparisonReached ==
    /\ sPQuery = "ok"
    /\ sFound # Undef
    /\ sFound # CorruptText

\* no previous artifact, or its digest differs from the new one
DigestChanged == sFound = Null \/ sNewHash # sExisting

\* C3: a run that reached the comparison has written the artifact (once, with
\* the new collection) iff there was no previous artifact or the digests
\* differ; with equal digests the artifact is as found and the exit code is 0.
C3_WritesIffDigestChanged ==
    (sPc = "done" /\ ComparisonReached) =>
        /\ sArtWrites >= 1 <=> DigestChanged
        /\ sArtWrites <= 1
        /\ DigestChanged => (sArtifact.v = sValid /\ sArtifact.indent = 2)
        /\ ~DigestChanged => (sArtifact = sFound /\ sFound.v = sValid /\ sExit = {0})

C3_Witness ==
    /\ sPc = "done"
    /\ ComparisonReached
    /\ sValid # <<>>
    /\ ~DigestChanged
    /\ sArtWrites = 0
    /\ sExit = {0}

\* the record's date lies on a day before today
Due(id) ==
    /\ store[id].visible
    /\ store[id].status = "Upcoming"
    /\ store[id].date.k = "iso"
    /\ DayOf(store[id].date.v) < DayOf(sNow)

CallsTo(id) == {c \in 1..Len(sCalls) : sCalls[c].page_id = id}

\* the updater's query returned every page and no call has settled yet
CallsJustIssued ==
    /\ sUQuery = "ok"
    /\ sPc # "issue"
    /\ sOk = {}
    /\ sRejected = {}

\* C8: once the updater has read all result pages, exactly one update call,
\* setting Status to 'Past', is issued for each visible 'Upcoming' record
\* dated before today, and none for any other record.
C8_OneCallPerPassedRecord ==
    CallsJustIssued =>
        \A id \in 1..Len(store) :
            /\ Due(id) =>
                  /\ Cardinality(CallsTo(id)) = 1
                  /\ \A c \in CallsTo(id) : sCalls[c].status = "Past"
            /\ ~Due(id) => CallsTo(id) = {}

\* more than one page was read; one record is due, another is dated earlier
\* today
C8_Witness ==
    /\ CallsJustIssued
    /\ sPc = "await"
    /\ Len(sAllPages) > QueryPageSize
    /\ Len(sCalls) = 1
    /\ \E id \in 1..Len(store) :
          /\ store[id].visible
          /\ store[id].status = "Upcoming"
          /\ store[id].date.k = "iso"
          /\ store[id].date.v < sNow
          /\ DayOf(store[id].date.v) = DayOf(sNow)

UpdaterReturned ==
    /\ sUQuery = "ok"
    /\ sPc \notin {"start", "uquery", "issue", "await"}

\* C9: when the updater has returned, every issued call has settled, the
\* success count is the number of calls that succeeded, and a failed call has
\* not ended the run: while calls are outstanding the run is alive and any of
\* them can still settle, and exit code 1 only comes from missing
\* credentials, a failed primary query or an unparseable artifact.
C9_AllCallsAwaitedAndCounted ==
    /\ UpdaterReturned =>
          /\ sPending = {}
          /\ sOk \cup sRejected = 1..Len(sCalls)
          /\ sOk \cap sRejected = {}
          /\ sUpdatedCount = Cardinality(sOk)
          /\ sStatusUpdated <=> sOk # {}
    /\ sPending # {} => (sPc = "await" /\ sExit = {} /\ ENABLED UpdateSettles)
    /\ (sPc = "done" /\ sExit = {1}) =>
          (sUQuery = "pending" \/ sPQuery = "failed" \/ sFound = CorruptText)

C9_Witness ==
    /\ UpdaterReturned
    /\ Len(sCalls) = 2
    /\ Cardinality(sOk) = 1
    /\ Cardinality(sRejected) = 1
    /\ sPc = "done"
    /\ sExit = {0}

\* C10: every run that ends with exit code 0 has written the checkpoint.
C10_SuccessWritesCheckpoint ==
    (sPc = "done" /\ sExit = {0}) => sCkptWrites >= 1

\* C10 as the code has it: a run that ends with exit code 0 has written the
\* checkpoint, once and with the timestamp it read, exactly when the
\* last-modified lookup returned one; otherwise it left the file alone.
C10_SuccessWritesCheckpointIfRead ==
    (sPc = "done" /\ sExit = {0}) =>
        IF sEdited # Null
        THEN sCkptWrites = 1 /\ sCheckpoint = sEdited
        ELSE sCkptWrites = 0 /\ sCheckpoint = Null

\* a no-op run that recorded the timestamp
C10_Witness ==
    /\ sPc = "done"
    /\ sExit = {0}
    /\ ComparisonReached
    /\ sArtWrites = 0
    /\ sCkptWrites = 1
    /\ sCheckpoint = sEdited

(***************************************************************************)
(* Claims on errors, pagination and the digest                             *)
(***************************************************************************)
\* the run read an events.json that JSON.parse rejects
CorruptArtifactRead == sPc = "done" /\ sFound = CorruptText

\* C11: a run that finds an unparseable events.json does not fail and
\* publishes the new collection as it would with no artifact present: it ends
\* with exit code 0 having written the new collection once.
C11_CorruptArtifactIsNoFingerprint ==
    CorruptArtifactRead =>
        /\ sExit = {0}
        /\ sArtWrites = 1
        /\ sArtifact = JsonStringify(sValid, 2)

\* C12 as stated: a run in which either record query failed has ended with
\* exit code 1.
C12_AnyQueryFailureIsTerminal ==
    (sPc = "done" /\ (sUQuery = "failed" \/ sPQuery = "failed")) => sExit = {1}

\* C12 as the code has it: a failed primary query ends the run at once with
\* exit code 1; a failed updater query is absorbed like a failed update call:
\* the updater reports no change, issues no call, and the run goes on, so that
\* it ends with exit code 1 only for a failed primary query or an unreadable
\* artifact.
C12_OnlyPrimaryQueryFailureIsTerminal ==
    /\ sPQuery = "failed" => (sPc = "done" /\ sExit = {1})
    /\ sUQuery = "failed" =>
          /\ sPc \notin {"start", "uquery", "issue", "await", "delay"}
          /\ ~sStatusUpdated
          /\ sCalls = <<>>
          /\ sExit = {1} => (sPQuery = "failed" \/ sFound = CorruptText)
          /\ (sPc = "done" /\ sPQuery = "ok" /\ sFound # CorruptText) => sExit = {0}

\* the updater's query failed on its second page and the run published
C12_Witness ==
    /\ sUQuery = "failed"
    /\ sAllPages # <<>>
    /\ sPc = "done"
    /\ sExit = {0}
    /\ sArtWrites = 1

\* C13: when the primary query has failed the run has ended with exit code 1,
\* events.json and the checkpoint file have not been written, and every
\* update call that succeeded before is still applied in the store.
C13_PrimaryQueryFailureLeavesFiles ==
    sPQuery = "failed" =>
        /\ sPc = "done"
        /\ sExit = {1}
        /\ sArtWrites = 0
        /\ sArtifact = Undef
        /\ sCkptWrites = 0
        /\ sCheckpoint = Null
        /\ \A c \in sOk : store[sCalls[c].page_id].status = "Past"

\* the primary query failed after a status update had been pushed
C13_Witness ==
    /\ sPQuery = "failed"
    /\ sPc = "done"
    /\ sOk # {}
    /\ sDelayed

\* the visible records that have a name and a date
VisibleDated == {id \in 1..Len(store) : store[id].visible /\ store[id].date.k = "iso"}

\* C14: once the primary query has succeeded, the collection to publish holds
\* one event for every visible record that has a name and a date, however
\* many pages the store needs to return them.
C14_PublishedCoversVisibleRecords ==
    sPQuery = "ok" => Len(sValid) = Cardinality(VisibleDated)

EventDate(event) == Get(event, "Date").v

Ascending(events) ==
    \A i, j \in 1..Len(events) : i < j => EventDate(events[i]) <= EventDate(events[j])

\* C17: the collection to publish is in ascending order of the events' dates,
\* and so is every artifact the run has written.
C17_PublishedAscendingByDate ==
    /\ sPQuery = "ok" => Ascending(sValid)
    /\ sArtWrites >= 1 => (JsonParses(sArtifact) /\ Ascending(JsonParse(sArtifact)))

\* two events with different dates were written, from records that the store
\* holds in the opposite order
C17_Witness ==
    /\ sPc = "done"
    /\ sArtWrites = 1
    /\ Len(sValid) = 2
    /\ EventDate(sValid[1]) < EventDate(sValid[2])
    /\ \E a, b \in VisibleDated : a < b /\ store[a].date.v > store[b].date.v

(***************************************************************************)
(* Claims on the digest round trip and on the keys of a mapped event       *)
(***************************************************************************)
\* C15: the digest that a following run computes from the written artifact
\* (read, parse, hash) equals the digest computed in memory before writing,
\* so that run's comparison finds the content unchanged and does not rewrite
\* the artifact.
C15_DigestRoundTrip ==
    mPc = "reread" => (mReHash = mHash /\ Unchanged(mReHash, mHash))

\* a collection whose serialisation differs from the values in memory (a file
\* entry with an undefined name) went through the round trip
C15_Witness ==
    /\ mPc = "reread"
    /\ mValid # <<>>
    /\ JsonParse(mText) # mValid

Mapped == mPc \in {"mapped", "filtered", "published", "reread"}

FieldValue(page, n) == extractPropertyValue(page.props[n][2])

DerivedOrDeleted == {"Place", "datePretty"}

AsMapping(event) == {event[i] : i \in 1..Len(event)}

\* the semantic content of a collection: its events, in order, as mappings
Content(events) == [i \in 1..Len(events) |-> AsMapping(events[i])]

\* the run compared the new collection with a parseable earlier artifact
ComparedWithEarlier == sPc = "done" /\ ComparisonReached /\ sFound # Null

\* C16: a run that compared the new collection with the previously published
\* one has rewritten the artifact iff the two differ in content, the order of
\* an event's fields not counting as a difference.
C16_RewrittenIffContentDiffers ==
    ComparedWithEarlier =>
        (sArtWrites >= 1 <=>
            Content(JsonParse(sFound)) # Content(JsonParse(JsonStringify(sValid, 0))))

\* C18 as stated: a process started without credentials ends with a failure
\* exit code.
C18_MissingCredentialsFail ==
    cFetch = "nocreds" => (cExit # {} /\ 0 \notin cExit)

\* C18 as the code has it, for the staleness checker: started without
\* credentials it ends at once with exit code 0, the code for 'fetch needed',
\* having read no file and issued no remote call.
C18_CheckerWithoutCredentialsExitsZero ==
    cFetch = "nocreds" =>
        /\ cPc = "done"
        /\ cExit = {0}
        /\ cFile = "unread"
        /\ cSync = Null
        /\ cEdited = Null
        /\ cScanned = "no"
        /\ cResults = <<>>

C18_Witness ==
    /\ cFetch = "nocreds"
    /\ cPc = "done"
    /\ cExit = {0}
    /\ cVariant = "dated"

\* the sync script ended at its credential check
SyncWithoutCredentials == sPc = "done" /\ sUQuery = "pending"

\* the sync script's half of C18: started without credentials it ends at once
\* with exit code 1, with no query, no update call and no file access
SyncWithoutCredentialsFails ==
    SyncWithoutCredentials =>
        /\ sExit = {1}
        /\ sAllPages = <<>>
        /\ sCalls = <<>>
        /\ sPQuery = "pending"
        /\ sEdited = Null
        /\ sArtReads = 0
        /\ sArtWrites = 0
        /\ sCkptWrites = 0

\* C19: at every point of a run, events.json has been read at most once and
\* written at most once, and the checkpoint file has been written at most
\* once.
C19_FilesAccessedAtMostOnce ==
    /\ sArtReads <= 1
    /\ sArtWrites <= 1
    /\ sCkptWrites <= 1
    /\ sArtWrites + sCkptWrites >= 1 => sArtReads = 1

\* an unchanged run that read the artifact and recorded the checkpoint
C19_Witness ==
    /\ sPc = "done"
    /\ sArtReads = 1
    /\ sArtWrites = 0
    /\ sCkptWrites = 1
    /\ sExit = {0}

(***************************************************************************)
(* Claims on the extraction of a property                                  *)
(***************************************************************************)
KnownTypes ==
    {"title", "rich_text", "number", "select", "multi_select", "date",
     "checkbox", "url", "email", "phone_number", "status", "relation", "rollup",
     "formula", "created_time", "last_edited_time", "created_by",
     "last_edited_by", "people", "files"}

\* a property without a type, of a type the extractor does not know, or a
\* formula of a result type it does not know
Unextractable(property) ==
    \/ property.type = ""
    \/ property.type \notin KnownTypes
    \/ /\ property.type = "formula"
       /\ property.val.v.type \notin {"string", "number", "boolean", "date"}

\* C21: a field that has no type, an unrecognised type, or a formula of an
\* unrecognised result type extracts to null and its key is left out of the
\* event, while every other field of the record and every other record of
\* the page is mapped: there is one event per record, and a field after the
\* unextractable ones is present with its value.
C21_UnextractableIsNullAndSkipped ==
    Mapped =>
        /\ Len(mEvents) = Len(mPages)
        /\ \A i \in 1..Len(mPages) : \A n \in 1..Len(mPages[i].props) :
              LET key == mPages[i].props[n][1]
                  property == mPages[i].props[n][2]
              IN  Unextractable(property) =>
                      /\ extractPropertyValue(property) = Null
                      /\ ~HasKey(mEvents[i], key)
                      /\ \A m \in (n + 1)..Len(mPages[i].props) :
                            LET later == mPages[i].props[m]
                            IN  later[1] = "Status" =>
                                    Get(mEvents[i], "Status") = Str("Upcoming")

\* a record with the three kinds of unextractable field was mapped, followed
\* by another record
C21_Witness ==
    /\ mPc = "mapped"
    /\ Len(mPages) >= 2
    /\ {"Mood", "Code", "Broken"} \subseteq Keys(mPages[1].props)
    /\ Keys(mEvents[1]) \cap {"Mood", "Code", "Broken"} = {}
    /\ HasKey(mEvents[1], "Status")
    /\ HasKey(mEvents[2], "Name")

\* the extraction of one item of a rollup array
RollupItem(item) ==
    IF item.type = "title" THEN PlainText(item.val) ELSE extractPropertyValue(item)

NotNull(x) == x.k # "null"

\* what C22 states for property[rollup]
RollupAsStated(val) ==
    IF val.v.array.k = "arr"
    THEN Arr(SelectSeq([j \in 1..Len(val.v.array.v) |-> RollupItem(val.v.array.v[j])],
                       NotNull))
    ELSE IF val.v.number.k = "num" THEN val.v.number ELSE Null

\* C22: a rollup with an array extracts to its extracted items without the
\* null results, in order; a rollup without an array extracts to its number
\* whenever it has one, 0 included, and to null otherwise.
C22_RollupKeepsItemsAndNumber ==
    Mapped =>
        \A i \in 1..Len(mPages) : \A n \in 1..Len(mPages[i].props) :
            LET property == mPages[i].props[n][2]
            IN  property.type = "rollup" =>
                    extractPropertyValue(property) = RollupAsStated(property.val)

(***************************************************************************)
(* Claims on the order of the steps of a run                               *)
(***************************************************************************)
\* C23: the settling delay is taken only after at least one update call has
\* succeeded, and when the run comes to the last-modified read the delay has
\* been taken iff a call succeeded; the last-modified read and the primary
\* query are taken only with every issued call settled; and the primary query
\* is taken directly after the last-modified read and nowhere else.
C23_DelayIffUpdatedThenReadThenQuery ==
    [][ /\ sDelayed' # sDelayed => (sPc = "delay" /\ sOk # {} /\ sPending = {})
        /\ (sPc' = "lastEdited" /\ sPc # "lastEdited") => (sDelayed' <=> sOk' # {})
        /\ sEdited' # sEdited => (sPc = "lastEdited" /\ sPending = {})
        /\ (sPc = "lastEdited" /\ sPc' # sPc) => (sPending = {} /\ sPc' = "query")
        /\ (sPc' = "query" /\ sPc # "query") => sPc = "lastEdited"
        /\ sPQuery' # sPQuery => (sPc = "query" /\ sPending = {})
      ]_vars

\* one call succeeded, one failed, the delay was taken and the query answered
C23_Witness ==
    /\ sDelayed
    /\ sOk # {}
    /\ sRejected # {}
    /\ sEdited # Null
    /\ sPQuery = "ok"

(***************************************************************************)
(* Claims on the local workflow                                            *)
(***************************************************************************)
\* C24: the fetch script is started only after the checker has closed, and
\* once the workflow has ended: a check code of 1 has skipped the fetch and
\* ended the workflow with code 0, every other check code has run the fetch,
\* and a non-zero fetch code has ended the workflow with code 1.
C24_FetchUnlessSkip ==
    /\ wFetchRuns > 0 => (wCheckCode # {} /\ cPc \in {"done", "aborted"})
    /\ wPc = "done" =>
          /\ wCheckCode = {1} => (wFetchRuns = 0 /\ wExit = {0})
          /\ wCheckCode # {1} => wFetchRuns = 1
          /\ (wFetchCode # {} /\ wFetchCode # {0}) => wExit = {1}

(***************************************************************************)
(* Claims on what the checker makes of the checkpoint                      *)
(***************************************************************************)
\* the checker returned having read a checkpoint and the remote timestamp
ComparedTimestamps ==
    CheckReturned /\ cFile = "present" /\ cSync.k = "iso" /\ cEdited.k = "iso"

\* C25: when the checkpoint holds the timestamp a run persisted and the
\* store's last-modified timestamp is strictly later (an edit was made after
\* that run read it), the checker reports 'sync needed' and exits 0.
C25_LaterEditIsNoticed ==
    (ComparedTimestamps /\ cEdited.v > cSync.v) =>
        /\ cFetch = "yes"
        /\ cPc = "done" => cExit = {0}

\* the edit was made later on the day of the checkpoint and no scanned
\* record's date has passed
C25_Witness ==
    /\ ComparedTimestamps
    /\ cVariant = "dated"
    /\ cEdited.v > cSync.v
    /\ DayOf(cEdited.v) = DayOf(cSync.v)
    /\ cScanned = "ok"
    /\ ~ScannedPassed
    /\ cPc = "done"

\* the sync run's half of C25: a checkpoint the run has written holds the
\* timestamp it read, and it read it before its primary query (C23)
CheckpointIsTimestampRead ==
    sCkptWrites >= 1 => (sCheckpoint = sEdited /\ sEdited # Null /\ sPQuery = "ok")

\* C28: with a checkpoint file that is empty or holds no timestamp the
\* checker reports 'sync needed'.
C28_GarbageCheckpointFetches ==
    (CheckReturned /\ cFile = "present" /\ cSync.k # "iso") => cFetch = "yes"

(***************************************************************************)
(* Claims on status reconciliation                                         *)
(***************************************************************************)
\* every issued update call succeeded and the updater has returned
ReconciledInFull == UpdaterReturned /\ sRejected = {}

\* C26: after a reconcile whose calls all succeeded no visible 'Upcoming'
\* record is dated before today, and a reconcile of the resulting store on
\* the same day issues no call and reports no change; and no step of a run
\* takes a record from 'Past' back to 'Upcoming'.
C26_ReconcileConvergesAndNeverReverts ==
    /\ [](ReconciledInFull =>
            /\ \A id \in 1..Len(store) : ~Due(id)
            /\ LET again == CallsFor(AllPagesOf(Matching(Len(store), TRUE)),
                                     [ok |-> TRUE, t |-> sNow])
               IN  again = <<>> /\ ~UpdaterResult(0, again))
    /\ [][\A id \in 1..Len(store) :
              store[id].status = "Past" => store'[id].status = "Past"]_vars

\* two records were moved to 'Past' next to a record that is not yet due
C26_Witness ==
    /\ ReconciledInFull
    /\ Cardinality(sOk) = 2
    /\ \E id \in 1..Len(store) :
          store[id].visible /\ store[id].status = "Upcoming" /\ store[id].date.k = "iso"

\* C27: on the same store and day the checker's scan finds a passed date
\* iff the updater issues at least one update call.
C27_ScanAgreesWithUpdater ==
    CallsJustIssued =>
        (AnyDatePassed(ScanQuery(Matching(Len(store), TRUE)), [ok |-> TRUE, t |-> sNow])
            <=> sCalls # <<>>)

(***************************************************************************)
(* Claims on the home page's event list                                    *)
(***************************************************************************)
\* every call made has resumed, and the list container exists
HomeSettled == hPc = "ready" /\ hPending = <<>> /\ hListExists

RowDated(node) == NewDate(node.event.dateISO).ok

RowsAscending(list) ==
    \A i, j \in 1..Len(list) :
        (i < j /\ RowDated(list[i]) /\ RowDated(list[j]))
            => NewDate(list[i].event.dateISO).t <= NewDate(list[j].event.dateISO).t

\* the number of events of the last resumed call that are 'Upcoming'
UpcomingCount == Len(SelectSeq(hLastData, IsUpcoming))

\* C29: once every renderHomeEvents call has completed, overlapping calls
\* included, the home list holds no skeleton row and holds either the rows of
\* the upcoming events (at most 3, each 'Upcoming', in ascending date order,
\* none twice) or, when the last call was given no upcoming event or no
\* artifact, exactly one empty-state message.
C29_HomeListAfterRenders ==
    HomeSettled =>
        /\ \A i \in 1..Len(hList) : hList[i].kind # "skeleton"
        /\ IF UpcomingCount = 0
           THEN Len(hList) = 1 /\ hList[1].kind = "empty"
           ELSE /\ Len(hList) = Min(UpcomingCount, MAX_HOME_EVENTS)
                /\ \A i \in 1..Len(hList) :
                      hList[i].kind = "row" /\ IsUpcoming(hList[i].event)
                /\ RowsAscending(hList)
                /\ \A i, j \in 1..Len(hList) : i # j => hList[i].event # hList[j].event

\* three calls overlapped (a language switch while fetches were pending), all
\* have resumed, and the list shows three rows out of four upcoming events
C29_Witness ==
    /\ HomeSettled
    /\ hOverlapped
    /\ hCalls = 3
    /\ UpcomingCount = 4
    /\ Len(hList) = 3

====
